---- MODULE Spec2Model ----
(***************************************************************************)
(* Model of nasdaq_scraper.py: the monitor loop of main(), the fetch /     *)
(* cache / rate-limit pipeline of scrape_nasdaq() and is_rate_limited(),   *)
(* the row parser, the seen-entries list with its file, the notifier's     *)
(* result and the signal handler.                                          *)
(*                                                                         *)
(* Time is counted in ticks of CHECK_INTERVAL.  time.time() is `clock`;    *)
(* it advances in the two time.sleep calls of main().  The configuration   *)
(* values are read from the environment by the program (os.getenv); the    *)
(* values below are one such configuration, scaled to ticks.               *)
(***************************************************************************)
EXTENDS Integers, Sequences, FiniteSets, TLC

\* ------------------------------------------------------------ configuration
CHECK_INTERVAL == 1
ERROR_RETRY_INTERVAL == 2
CACHE_DURATION == 2
RATE_LIMIT_WINDOW == 4
MAX_REQUESTS_PER_WINDOW == 3
max_consecutive_errors == 5

\* ------------------------------------------------------------------ bounds
\* time.time() is followed up to this tick
MaxTime == 8
\* number of is_rate_limited calls followed in SpecRL
MaxCalls == 5

\* ---------------------------------------------------------- optional values
\* Python's None is the empty set, a value x is {x}
None == {}
Some(x) == {x}
The(opt) == CHOOSE x \in opt : TRUE

Range(s) == {s[i] : i \in 1..Len(s)}

\* ------------------------------------------------------------ the web page
\* A table row: the number of <td> cells, the text of the <a> of cell 0
\* ("" when there is no <a> or its text is blank) and the text of cell 1.
Row(n, id, desc) == [ncells |-> n, id |-> id, desc |-> desc]

\* A response body: whether the tab-content div and its table are present,
\* and the data rows of the table.  digest is the md5 of the body.
PageA == [digest |-> "hA", container |-> TRUE,
          rows |-> <<Row(6, "a", "x"), Row(6, "b", "x")>>]
PageB == [digest |-> "hB", container |-> TRUE,
          rows |-> <<Row(6, "b", ""), Row(5, "c", "x"), Row(6, "", "x"),
                     Row(6, "b", "x")>>]
PageBroken == [digest |-> "hX", container |-> FALSE, rows |-> <<>>]
Pages == {PageA, PageB, PageBroken}

Ids == {"a", "b"}

\* hashlib.md5(content).hexdigest(): distinct bodies have distinct digests
get_page_hash(p) == p.digest

\* parse_table_row: None for a row of fewer than 6 cells or without an id
parse_table_row(row) ==
    IF row.ncells < 6 THEN None
    ELSE IF row.id = "" THEN None
    ELSE Some([id |-> row.id, desc |-> row.desc])

\* the loop of scrape_nasdaq over the rows: the entries, in row order
RECURSIVE ParseRows(_)
ParseRows(rows) ==
    IF rows = <<>> THEN <<>>
    ELSE LET e == parse_table_row(Head(rows))
         IN  (IF e = None THEN <<>> ELSE <<The(e)>>) \o ParseRows(Tail(rows))

\* ------------------------------------------------------------ rate limiter
\* Prune that keeps nothing: the limiter forgets every request
Prune_none(ts, now) == <<>>

\* the timestamps less than a window old
Prune(ts, now) == SelectSeq(ts, LAMBDA t : now - t < RATE_LIMIT_WINDOW)

\* is_rate_limited with ">" for ">=": one request too many is let through
is_rate_limited_gt(ts, now) ==
    LET pruned == Prune(ts, now)
    IN  IF Len(pruned) > MAX_REQUESTS_PER_WINDOW
        THEN [limited |-> TRUE, timestamps |-> pruned]
        ELSE [limited |-> FALSE, timestamps |-> Append(pruned, now)]

\* is_rate_limited at time now: the answer and the new request_timestamps
is_rate_limited(ts, now) ==
    LET pruned == Prune(ts, now)
    IN  IF Len(pruned) >= MAX_REQUESTS_PER_WINDOW
        THEN [limited |-> TRUE, timestamps |-> pruned]
        ELSE [limited |-> FALSE, timestamps |-> Append(pruned, now)]

\* ------------------------------------------------------------------- state
VARIABLES
    pc,                 \* position of main(): see PCs
    clock,              \* time.time()
    request_timestamps, \* the rate limiter's list
    page_cache,         \* [content, timestamp, hash]
    session,            \* the global session: [gen, closed]
    seen_entries,       \* main's list of seen ids
    file,               \* seen_entries.json: None (absent or unreadable) or a list
    consecutive_errors, \* main's counter
    current_entries,    \* the list scrape_nasdaq returned
    idx,                \* position of the for loop in current_entries
    outcome,            \* how the last scrape_nasdaq call ended
    ev,                 \* the last step: [type, id, at]; id is an entry's id or a body's digest
    okCount,            \* id -> successful notifications so far (2 = two or more)
    called,             \* ids the notifier was called for in this iteration
    failed,             \* ids that had a notification answer False
    loaded,             \* what load_seen_entries returned at startup
    rlLog,              \* SpecRL: the calls of is_rate_limited, [t, permitted]
    gets                \* times of the session.get calls of the last window

vars == <<pc, clock, request_timestamps, page_cache, session, seen_entries,
          file, consecutive_errors, current_entries, idx, outcome, ev,
          okCount, called, failed, loaded, rlLog, gets>>

PCs == {"fetch", "get", "loop", "sent", "save", "sleep_ok", "sleep_err",
        "terminated"}

Event(t, id) == [type |-> t, id |-> id, at |-> pc]

\* load_seen_entries: the list of the file, [] when absent or unreadable
load_seen_entries(f) == IF f = None THEN <<>> ELSE The(f)

InitFiles == {None, Some(<<"a">>)}

Init ==
    /\ pc = "fetch"
    /\ clock = 0
    /\ request_timestamps = <<>>
    /\ page_cache = [content |-> None, timestamp |-> 0, hash |-> "None"]
    /\ session = [gen |-> 0, closed |-> FALSE]
    /\ file \in InitFiles
    /\ seen_entries = load_seen_entries(file)
    /\ loaded = seen_entries
    /\ consecutive_errors = 0
    /\ current_entries = <<>>
    /\ idx = 1
    /\ outcome = "none"
    /\ ev = [type |-> "start", id |-> "", at |-> "fetch"]
    /\ okCount = [i \in Ids |-> 0]
    /\ called = {}
    /\ failed = {}
    /\ rlLog = <<>>
    /\ gets = <<>>


\* --------------------------------------------------------- scrape_nasdaq
\* cache_valid with the comparison turned round
cache_valid_flipped(cache, now) ==
    /\ cache.content # None
    /\ now - cache.timestamp >= CACHE_DURATION

\* "Check if cache is still valid"
cache_valid(cache, now) ==
    /\ cache.content # None
    /\ now - cache.timestamp < CACHE_DURATION

\* what a rate-limited call returns: the cached content, [] when there is none
cached_or_empty(cache) ==
    IF cache.content # None THEN The(cache.content) ELSE <<>>

\* the calls of session.get at most a window before now, kept apart from
\* request_timestamps
Recent(ts, now) == SelectSeq(ts, LAMBDA t : now - t <= RATE_LIMIT_WINDOW)

\* hash_unchanged that never sees the cached hash: every body is parsed anew
hash_unchanged_never(h, cache) == FALSE

\* "if content_hash == page_cache['hash']"
hash_unchanged(h, cache) == h = cache.hash

\* scrape_nasdaq returns entries to main, whose for loop starts
Return(entries, how) ==
    /\ current_entries' = entries
    /\ outcome' = how
    /\ idx' = 1
    /\ pc' = "loop"
    /\ called' = {}

Frame == UNCHANGED <<clock, session, seen_entries, file, consecutive_errors,
                     okCount, failed, loaded, rlLog>>

\* the cache is valid: its content is returned
CacheHit ==
    /\ pc = "fetch"
    /\ cache_valid(page_cache, clock)
    /\ Return(The(page_cache.content), "Fresh")
    /\ ev' = Event("fresh", "")
    /\ UNCHANGED <<request_timestamps, page_cache>>
    /\ UNCHANGED gets
    /\ Frame

\* the cache is not valid and is_rate_limited() answers True
RateLimited ==
    /\ pc = "fetch"
    /\ ~cache_valid(page_cache, clock)
    /\ LET r == is_rate_limited(request_timestamps, clock)
       IN  /\ r.limited
           /\ request_timestamps' = r.timestamps
    /\ Return(cached_or_empty(page_cache), "RateLimited")
    /\ ev' = Event("ratelimited", "")
    /\ UNCHANGED page_cache
    /\ gets' = Recent(gets, clock)
    /\ Frame

\* the cache is not valid and is_rate_limited() answers False: session.get
StartGet ==
    /\ pc = "fetch"
    /\ ~cache_valid(page_cache, clock)
    /\ LET r == is_rate_limited(request_timestamps, clock)
       IN  /\ ~r.limited
           /\ request_timestamps' = r.timestamps
    /\ pc' = "get"
    /\ called' = {}
    /\ ev' = Event("get", "")
    /\ UNCHANGED <<page_cache, current_entries, idx, outcome>>
    /\ gets' = Append(Recent(gets, clock), clock)
    /\ Frame

\* GetFail with the exception ending the process instead of being caught
GetFail_Fatal ==
    /\ pc = "get"
    /\ pc' = "terminated"
    /\ ev' = Event("transport", "")
    /\ UNCHANGED <<request_timestamps, page_cache, current_entries, idx,
                   outcome, called>>
    /\ UNCHANGED gets
    /\ Frame

\* session.get or raise_for_status (or anything else in the try) raises:
\* the except clause of scrape_nasdaq returns []
GetFail ==
    /\ pc = "get"
    /\ Return(<<>>, "TransportError")
    /\ ev' = Event("transport", "")
    /\ UNCHANGED <<request_timestamps, page_cache>>
    /\ UNCHANGED gets
    /\ Frame

\* GetUnchanged that also renews the timestamp of the cache
GetUnchanged_Refresh ==
    /\ pc = "get"
    /\ \E p \in Pages :
          /\ hash_unchanged(get_page_hash(p), page_cache)
          /\ Return(The(page_cache.content), "Unchanged")
          /\ ev' = Event("unchanged", get_page_hash(p))
    /\ page_cache' = [page_cache EXCEPT !.timestamp = clock]
    /\ UNCHANGED request_timestamps
    /\ UNCHANGED gets
    /\ Frame

\* the body's hash is the cached hash: the cached content is returned
GetUnchanged ==
    /\ pc = "get"
    /\ \E p \in Pages :
          /\ hash_unchanged(get_page_hash(p), page_cache)
          /\ Return(The(page_cache.content), "Unchanged")
          /\ ev' = Event("unchanged", get_page_hash(p))
    /\ UNCHANGED <<request_timestamps, page_cache>>
    /\ UNCHANGED gets
    /\ Frame

\* GetStructural that stores the digest of the page it could not parse
GetStructural_Caches ==
    /\ pc = "get"
    /\ \E p \in Pages :
          /\ ~hash_unchanged(get_page_hash(p), page_cache)
          /\ ~p.container
          /\ Return(<<>>, "Structural")
          /\ ev' = Event("structural", get_page_hash(p))
          /\ page_cache' = [page_cache EXCEPT !.hash = get_page_hash(p)]
    /\ UNCHANGED request_timestamps
    /\ UNCHANGED gets
    /\ Frame

\* GetStructural with the missing table raised to main as an error
GetStructural_Raises ==
    /\ pc = "get"
    /\ \E p \in Pages :
          /\ ~hash_unchanged(get_page_hash(p), page_cache)
          /\ ~p.container
          /\ current_entries' = <<>>
          /\ outcome' = "Structural"
          /\ ev' = Event("structural", get_page_hash(p))
    /\ pc' = "sleep_err"
    /\ consecutive_errors' = (consecutive_errors + 1) % max_consecutive_errors
    /\ UNCHANGED <<request_timestamps, page_cache, idx, called, gets, clock,
                   session,
                   seen_entries, file, okCount, failed, loaded, rlLog>>

\* a new body without the tab content or the table: []
GetStructural ==
    /\ pc = "get"
    /\ \E p \in Pages :
          /\ ~hash_unchanged(get_page_hash(p), page_cache)
          /\ ~p.container
          /\ Return(<<>>, "Structural")
          /\ ev' = Event("structural", get_page_hash(p))
    /\ UNCHANGED <<request_timestamps, page_cache>>
    /\ UNCHANGED gets
    /\ Frame

\* a new body with the table: its rows are parsed and the cache is updated
GetNewData ==
    /\ pc = "get"
    /\ \E p \in Pages :
          /\ ~hash_unchanged(get_page_hash(p), page_cache)
          /\ p.container
          /\ LET entries == ParseRows(p.rows)
             IN  /\ page_cache' = [content |-> Some(entries),
                                   timestamp |-> clock,
                                   hash |-> get_page_hash(p)]
                 /\ Return(entries, "NewData")
          /\ ev' = Event("newdata", get_page_hash(p))
    /\ UNCHANGED request_timestamps
    /\ UNCHANGED gets
    /\ Frame

\* ------------------------------------------------------------------ main
\* is_new without the membership test
is_new_always(id, seen) == TRUE

\* "if entry_id not in seen_entries"
is_new(id, seen) == id \notin Range(seen)

\* after_send with a False answer ending the iteration as an error
after_send_abort(ok) == IF ok THEN "sent" ELSE "sleep_err"

\* after_send ignoring the answer: the id is appended whatever it was
after_send_always(ok) == "sent"

\* where main goes with the answer of send_to_discord: to the append, or on
\* to the next entry
after_send(ok) == IF ok THEN "sent" ELSE "loop"

Bump(n) == IF n >= 2 THEN 2 ELSE n + 1

InLoop == pc = "loop" /\ idx <= Len(current_entries)

\* the entry's id is in seen_entries: nothing is done
Skip ==
    /\ InLoop
    /\ ~is_new(current_entries[idx].id, seen_entries)
    /\ idx' = idx + 1
    /\ ev' = Event("skip", current_entries[idx].id)
    /\ UNCHANGED <<pc, clock, request_timestamps, page_cache, session,
                   seen_entries, file, consecutive_errors, current_entries,
                   outcome, okCount, called, failed, loaded, rlLog, gets>>

\* the entry is new: send_to_discord is called and answers ok
Notify ==
    /\ InLoop
    /\ LET id == current_entries[idx].id
       IN  /\ is_new(id, seen_entries)
           /\ called' = called \cup {id}
           /\ \E ok \in BOOLEAN :
                 /\ pc' = after_send(ok)
                 /\ idx' = IF pc' = "loop" THEN idx + 1 ELSE idx
                 /\ okCount' = IF ok THEN [okCount EXCEPT ![id] = Bump(@)]
                               ELSE okCount
                 /\ failed' = IF ok THEN failed ELSE failed \cup {id}
                 /\ ev' = Event(IF ok THEN "notify_ok" ELSE "notify_fail", id)
    /\ UNCHANGED <<clock, request_timestamps, page_cache, session,
                   seen_entries, file, consecutive_errors, current_entries,
                   outcome, loaded, rlLog, gets>>

\* append_seen that forgets the id
append_seen_drop(seen, id) == seen

\* seen_entries.append(entry_id)
append_seen(seen, id) == Append(seen, id)

\* send_to_discord answered True: the id is appended
AppendSeen ==
    /\ pc = "sent"
    /\ seen_entries' = append_seen(seen_entries, current_entries[idx].id)
    /\ pc' = "save"
    /\ ev' = Event("append", current_entries[idx].id)
    /\ UNCHANGED <<clock, request_timestamps, page_cache, session, file,
                   consecutive_errors, current_entries, idx, outcome,
                   okCount, called, failed, loaded, rlLog, gets>>

\* save_seen_entries writes the list
SaveOk ==
    /\ pc = "save"
    /\ file' = Some(seen_entries)
    /\ pc' = "loop"
    /\ idx' = idx + 1
    /\ ev' = Event("save_ok", current_entries[idx].id)
    /\ UNCHANGED <<clock, request_timestamps, page_cache, session,
                   seen_entries, consecutive_errors, current_entries,
                   outcome, okCount, called, failed, loaded, rlLog, gets>>

\* SaveFail without the try of save_seen_entries: the exception reaches the
\* except clause of main
SaveFail_Raises ==
    /\ pc = "save"
    /\ file' \in {file, None}
    /\ pc' = "sleep_err"
    /\ consecutive_errors' = consecutive_errors + 1
    /\ ev' = Event("save_fail", current_entries[idx].id)
    /\ UNCHANGED <<clock, request_timestamps, page_cache, session,
                   seen_entries, current_entries, idx, outcome, okCount,
                   called, failed, loaded, rlLog, gets>>

\* save_seen_entries fails and logs: open() failed and the file is as it
\* was, or the file was truncated and the write failed
SaveFail ==
    /\ pc = "save"
    /\ file' \in {file, None}
    /\ pc' = "loop"
    /\ idx' = idx + 1
    /\ ev' = Event("save_fail", current_entries[idx].id)
    /\ UNCHANGED <<clock, request_timestamps, page_cache, session,
                   seen_entries, consecutive_errors, current_entries,
                   outcome, okCount, called, failed, loaded, rlLog, gets>>

\* the for loop is over: the counter is reset, main sleeps CHECK_INTERVAL
LoopDone ==
    /\ pc = "loop"
    /\ idx > Len(current_entries)
    /\ consecutive_errors' = 0
    /\ pc' = "sleep_ok"
    /\ ev' = Event("iter_ok", "")
    /\ UNCHANGED <<clock, request_timestamps, page_cache, session,
                   seen_entries, file, current_entries, idx, outcome,
                   okCount, called, failed, loaded, rlLog, gets>>

\* time.sleep(CHECK_INTERVAL) returns
SleepOk ==
    /\ pc = "sleep_ok"
    /\ clock + CHECK_INTERVAL <= MaxTime
    /\ clock' = clock + CHECK_INTERVAL
    /\ pc' = "fetch"
    /\ ev' = Event("wake", "")
    /\ UNCHANGED <<request_timestamps, page_cache, session, seen_entries,
                   file, consecutive_errors, current_entries, idx, outcome,
                   okCount, called, failed, loaded, rlLog, gets>>

\* the except clause of main: the counter and the session after an error
on_error(errors, sess) ==
    IF errors + 1 >= max_consecutive_errors
    THEN [errors |-> 0, session |-> [gen |-> sess.gen + 1, closed |-> FALSE],
          recreated |-> TRUE]
    ELSE [errors |-> errors + 1, session |-> sess, recreated |-> FALSE]

\* an exception reaches the except clause of main: one raised in
\* scrape_nasdaq before its try, or in the body of the loop outside the try
\* blocks of send_to_discord and save_seen_entries
IterationError ==
    /\ pc \in {"fetch", "loop"}
    /\ LET r == on_error(consecutive_errors, session)
       IN  /\ consecutive_errors' = r.errors
           /\ session' = r.session
           /\ ev' = Event(IF r.recreated THEN "error_recreate" ELSE "error", "")
    /\ pc' = "sleep_err"
    /\ UNCHANGED <<clock, request_timestamps, page_cache, seen_entries, file,
                   current_entries, idx, outcome, okCount, called, failed,
                   loaded, rlLog, gets>>

\* time.sleep(ERROR_RETRY_INTERVAL) returns
SleepErr ==
    /\ pc = "sleep_err"
    /\ clock + ERROR_RETRY_INTERVAL <= MaxTime
    /\ clock' = clock + ERROR_RETRY_INTERVAL
    /\ pc' = "fetch"
    /\ ev' = Event("wake", "")
    /\ UNCHANGED <<request_timestamps, page_cache, session, seen_entries,
                   file, consecutive_errors, current_entries, idx, outcome,
                   okCount, called, failed, loaded, rlLog, gets>>

\* signal_handler without session.close()
signal_handler_noclose(sess) == sess

\* signal_handler: session.close() and sys.exit(0)
signal_handler(sess) == [sess EXCEPT !.closed = TRUE]

\* SIGTERM or SIGINT arrives, wherever main is.  SystemExit is no Exception:
\* no except clause of the program catches it.  When it arrives inside
\* save_seen_entries the file may already be truncated by open(..., 'w').
Signal ==
    /\ pc \in PCs \ {"terminated"}
    /\ session' = signal_handler(session)
    /\ pc' = "terminated"
    /\ file' \in (IF pc = "save" THEN {file, None} ELSE {file})
    /\ ev' = Event("signal", "")
    /\ UNCHANGED <<clock, request_timestamps, page_cache, seen_entries,
                   consecutive_errors, current_entries, idx, outcome,
                   okCount, called, failed, loaded, rlLog, gets>>

\* one step of the loop itself
Step ==
    \/ CacheHit
    \/ RateLimited
    \/ StartGet
    \/ GetFail
    \/ GetUnchanged
    \/ GetStructural
    \/ GetNewData
    \/ Skip
    \/ Notify
    \/ AppendSeen
    \/ SaveOk
    \/ SaveFail
    \/ LoopDone
    \/ SleepOk
    \/ IterationError
    \/ SleepErr

Next == Step \/ Signal

Spec == Init /\ [][Next]_vars

\* ------------------------------------------- main when no save fails
\* The loop with every json.dump of save_seen_entries succeeding: SaveFail is
\* left out, everything else, the signal included, is as in Spec.
StepPersistOk ==
    \/ CacheHit
    \/ RateLimited
    \/ StartGet
    \/ GetFail
    \/ GetUnchanged
    \/ GetStructural
    \/ GetNewData
    \/ Skip
    \/ Notify
    \/ AppendSeen
    \/ SaveOk
    \/ LoopDone
    \/ SleepOk
    \/ IterationError
    \/ SleepErr

NextPersistOk == StepPersistOk \/ Signal

SpecPersistOk == Init /\ [][NextPersistOk]_vars

\* ------------------------------------------- is_rate_limited on its own
\* A caller that only calls is_rate_limited, at times that do not decrease.
InitRL ==
    /\ pc = "rl"
    /\ clock = 0
    /\ request_timestamps = <<>>
    /\ page_cache = [content |-> None, timestamp |-> 0, hash |-> "None"]
    /\ session = [gen |-> 0, closed |-> FALSE]
    /\ file = None
    /\ seen_entries = <<>>
    /\ loaded = <<>>
    /\ consecutive_errors = 0
    /\ current_entries = <<>>
    /\ idx = 1
    /\ outcome = "none"
    /\ ev = [type |-> "start", id |-> "", at |-> "rl"]
    /\ okCount = [i \in Ids |-> 0]
    /\ called = {}
    /\ failed = {}
    /\ rlLog = <<>>
    /\ gets = <<>>

RLCall(now, limited) ==
    /\ pc = "rl"
    /\ Len(rlLog) < MaxCalls
    /\ now <= MaxTime
    /\ LET r == is_rate_limited(request_timestamps, now)
       IN  /\ r.limited = limited
           /\ request_timestamps' = r.timestamps
           /\ rlLog' = Append(rlLog, [t |-> now, permitted |-> ~r.limited,
                                      before |-> request_timestamps])
    /\ clock' = now
    /\ UNCHANGED <<pc, page_cache, session, seen_entries, file,
                   consecutive_errors, current_entries, idx, outcome, ev,
                   okCount, called, failed, loaded, gets>>

\* a call that is permitted
RLPermit == \E d \in 0..2 : RLCall(clock + d, FALSE)

\* a call that is denied
RLDeny == \E d \in 0..2 : RLCall(clock + d, TRUE)

NextRL == RLPermit \/ RLDeny

SpecRL == InitRL /\ [][NextRL]_vars

\* ------------------------------------------------------------ properties
IdsOf(entries) == {entries[i].id : i \in 1..Len(entries)}
Seen == Range(seen_entries)
Sleeping == pc \in {"sleep_ok", "sleep_err"}

\* C1 (dedup): when the for loop examines an entry whose id is in
\* seen_entries, that step is no call of the notifier: no call is recorded
\* and no notification succeeds or fails.
C1_SeenNeverNotified ==
    [][(InLoop /\ current_entries[idx].id \in Seen)
         => /\ ev'.type \notin {"notify_ok", "notify_fail"}
            /\ called' = called /\ okCount' = okCount /\ failed' = failed]_vars

\* C1 witness: an entry was skipped whose id had been notified and appended
\* earlier in this run.
C1_Witness ==
    /\ ev.type = "skip"
    /\ ev.id \in Seen
    /\ okCount[ev.id] = 1

\* C2 (seen iff notified): every id of seen_entries was loaded at startup or
\* has a notification that answered True, and an id with such a notification
\* is in seen_entries as soon as main is past the append: it is missing only
\* while main stands at the append of that very entry, or was terminated
\* there.
C2_SeenIffNotified ==
    /\ \A x \in Seen : x \in Range(loaded) \/ okCount[x] >= 1
    /\ \A x \in Ids :
          (okCount[x] >= 1 /\ x \notin Seen)
            => /\ pc = "sent" \/ (pc = "terminated" /\ ev.at = "sent")
               /\ x = current_entries[idx].id

\* C2 witness: one id was refused by the notifier and is not in
\* seen_entries, another was accepted and is, and was not loaded.
C2_Witness ==
    /\ pc = "save"
    /\ \E x \in Ids : okCount[x] = 1 /\ x \in Seen /\ x \notin Range(loaded)
    /\ \E y \in Ids : y \in failed /\ okCount[y] = 0 /\ y \notin Seen

\* C3 (at most once): no id has more than one notification that answered
\* True.
C3_AtMostOneSuccess == \A x \in Ids : okCount[x] <= 1

\* C3 witness: after a notification of b failed and a later one succeeded,
\* and a save failed, a new page that lists b twice is examined and b is
\* skipped.
C3_Witness ==
    /\ ev.type = "skip"
    /\ ev.id = "b"
    /\ okCount["b"] = 1
    /\ "b" \in failed
    /\ page_cache.hash = get_page_hash(PageB)
    /\ outcome \in {"Fresh", "Unchanged", "RateLimited"}
    /\ file # Some(seen_entries)

\* C4 (as claimed): an iteration whose fetch ended in a transport failure
\* increments consecutive_errors, so that main sleeps with the counter at
\* least 1, or at 0 with the session just recreated.
C4_TransportFailureCounted ==
    (Sleeping /\ outcome = "TransportError")
      => (consecutive_errors >= 1 \/ ev.type = "error_recreate")

\* C5 (as claimed): an iteration whose fetch ended in a transport failure,
\* or in which an exception reached main, is followed by the sleep of
\* ERROR_RETRY_INTERVAL.
C5_FailedIterationBacksOff ==
    (Sleeping /\ (outcome = "TransportError"
                    \/ ev.type \in {"error", "error_recreate"}))
      => pc = "sleep_err"

\* C6 (retry): a notification that answers False leaves seen_entries alone
\* and main goes on to the next entry; and when the for loop has run to its
\* end, every id of the entries it ran over is in seen_entries or had the
\* notifier called in this iteration, so that an id whose notifications have
\* all failed so far had the notifier called again.
C6_FailureRetried ==
    /\ ev.type = "notify_fail" => (ev.id \notin Seen /\ pc = "loop")
    /\ \A x \in Ids : (x \in failed /\ okCount[x] = 0) => x \notin Seen
    /\ pc = "sleep_ok"
         => \A x \in IdsOf(current_entries) :
               /\ x \in Seen \/ x \in called
               /\ (x \in failed /\ okCount[x] = 0) => x \in called

\* C6 witness: the entries came from the cache and list each id once; an id
\* that had been refused in an earlier iteration had the notifier called
\* again in this one, was accepted and appended.
C6_Witness ==
    /\ pc = "sleep_ok"
    /\ outcome = "Fresh"
    /\ current_entries = ParseRows(PageA.rows)
    /\ \E x \in IdsOf(current_entries) :
          x \in failed /\ okCount[x] = 1 /\ x \in Seen /\ x \in called

\* the timestamps of ts that are less than a window before now
InWindow(ts, now) == {k \in 1..Len(ts) : now - ts[k] < RATE_LIMIT_WINDOW}

\* the list after the i-th call
AfterCall(i) ==
    IF i < Len(rlLog) THEN rlLog[i + 1].before ELSE request_timestamps

\* C7 (rate limiter): a call is permitted iff fewer than
\* MAX_REQUESTS_PER_WINDOW of the timestamps are within the window; the list
\* after the call holds exactly those timestamps, in order, followed by the
\* time of the call iff it was permitted; and when the first
\* MAX_REQUESTS_PER_WINDOW + 1 calls fall within one window, all are
\* permitted but the last.
C7_RateLimiterContract ==
    /\ \A i \in 1..Len(rlLog) :
          LET e == rlLog[i]
              n == Cardinality(InWindow(e.before, e.t))
              after == AfterCall(i)
          IN  /\ e.permitted <=> n < MAX_REQUESTS_PER_WINDOW
              /\ Len(after) = n + (IF e.permitted THEN 1 ELSE 0)
              /\ \A k \in 1..n : e.t - after[k] < RATE_LIMIT_WINDOW
              /\ \A k \in 1..n : \E j \in InWindow(e.before, e.t) :
                    /\ after[k] = e.before[j]
                    /\ Cardinality({m \in InWindow(e.before, e.t) : m <= j}) = k
              /\ e.permitted => after[n + 1] = e.t
    /\ (/\ Len(rlLog) > MAX_REQUESTS_PER_WINDOW
        /\ rlLog[MAX_REQUESTS_PER_WINDOW + 1].t - rlLog[1].t < RATE_LIMIT_WINDOW)
         => /\ \A i \in 1..MAX_REQUESTS_PER_WINDOW : rlLog[i].permitted
            /\ ~rlLog[MAX_REQUESTS_PER_WINDOW + 1].permitted

\* C7 witness: MAX_REQUESTS_PER_WINDOW + 1 calls within one window, the last
\* denied; and a later call permitted again after a timestamp aged out.
C7_Witness ==
    /\ Len(rlLog) = MAX_REQUESTS_PER_WINDOW + 2
    /\ rlLog[MAX_REQUESTS_PER_WINDOW + 1].t - rlLog[1].t < RATE_LIMIT_WINDOW
    /\ ~rlLog[MAX_REQUESTS_PER_WINDOW + 1].permitted
    /\ rlLog[MAX_REQUESTS_PER_WINDOW + 2].permitted

\* C8 (cache hit): when scrape_nasdaq starts with content in the cache that
\* is younger than CACHE_DURATION, it returns that content to the loop: no
\* GET is started, and request_timestamps and the cache are as they were.
C8_CacheHitNoNetwork ==
    [][(/\ pc = "fetch"
        /\ page_cache.content # None
        /\ clock - page_cache.timestamp < CACHE_DURATION
        /\ pc' \notin {"terminated", "sleep_err"})
         => /\ pc' = "loop"
            /\ current_entries' = The(page_cache.content)
            /\ outcome' = "Fresh"
            /\ request_timestamps' = request_timestamps
            /\ page_cache' = page_cache]_vars

\* C8 witness: a call answered from the cache, after a GET had filled it.
C8_Witness ==
    /\ ev.type = "fresh"
    /\ pc = "loop"
    /\ request_timestamps # <<>>
    /\ clock - page_cache.timestamp < CACHE_DURATION
    /\ current_entries = The(page_cache.content)

\* C9 (no failure is fatal): main is terminated only by the signal; after a
\* transport failure, a structural failure, a refused notification, a failed
\* save or an exception main is not terminated; and wherever main is, short
\* of a sleep that runs past MaxTime, it has a next step of its own.
C9_NoFailureFatal ==
    /\ pc = "terminated" => ev.type = "signal"
    /\ ev.type \in {"transport", "structural", "notify_fail", "save_fail",
                    "error", "error_recreate"} => pc # "terminated"
    /\ pc # "terminated"
         => \/ ENABLED Step
            \/ pc = "sleep_ok" /\ clock + CHECK_INTERVAL > MaxTime
            \/ pc = "sleep_err" /\ clock + ERROR_RETRY_INTERVAL > MaxTime

\* C9 witness: main starts a further iteration after a refused notification,
\* a failed save, a transport failure and an exception.
C9_Witness ==
    /\ pc = "fetch"
    /\ ev.type = "wake"
    /\ failed # {}
    /\ loaded # <<>> /\ file = None
    /\ outcome = "TransportError"
    /\ consecutive_errors >= 1

\* C10 (termination): once terminated, the session is closed and main takes
\* no further step: no fetch, notification, append or save.
C10_TerminationFinal ==
    pc = "terminated" => (session.closed /\ ~ENABLED Next)

\* C10 witness: the signal arrived after an append and before its save: the
\* iteration is left unfinished and the file lacks the id.
C10_Witness ==
    /\ pc = "terminated"
    /\ ev.at = "save"
    /\ session.closed
    /\ idx <= Len(current_entries)
    /\ current_entries[idx].id \in Seen
    /\ file # Some(seen_entries)

\* the entries main works on and those of the cache
Entries(seq) == {seq[i] : i \in 1..Len(seq)}
CachedEntries == IF page_cache.content = None THEN {}
                 ELSE Entries(The(page_cache.content))

\* C11 (as claimed): every entry that scrape_nasdaq puts in the cache or
\* returns to the for loop has an id and a description that are not empty.
C11_RecordsValid ==
    \A e \in Entries(current_entries) \cup CachedEntries :
        e.id # "" /\ e.desc # ""

\* the digest of the body the last session.get received, "" when none did
Received == IF ev.type \in {"unchanged", "newdata", "structural"}
            THEN ev.id ELSE ""

\* C12 (unchanged page, all seen): a body whose hash is the cached hash ends
\* the fetch as Unchanged, with the cached content returned and the cache as
\* it was; and while the for loop runs over such content with every id in
\* seen_entries, no step calls the notifier, and seen_entries and the file
\* stay as they are.
C12_UnchangedAllSeen ==
    [][/\ (pc = "get" /\ Received' # "" /\ Received' = page_cache.hash)
            => /\ outcome' = "Unchanged"
               /\ current_entries' = The(page_cache.content)
               /\ page_cache' = page_cache
               /\ called' = {}
       /\ (/\ pc = "loop"
           /\ outcome = "Unchanged"
           /\ IdsOf(current_entries) \subseteq Seen)
            => /\ ev'.type \notin {"notify_ok", "notify_fail", "append",
                                   "save_ok", "save_fail"}
               /\ called' = called
               /\ okCount' = okCount
               /\ seen_entries' = seen_entries
               /\ file' = file]_vars

\* C12 witness: every entry of page A was notified and appended in this run,
\* a later session.get received the same body, and the for loop ran to its
\* end without a call of the notifier.
C12_Witness ==
    /\ pc = "sleep_ok"
    /\ outcome = "Unchanged"
    /\ page_cache.hash = get_page_hash(PageA)
    /\ current_entries = ParseRows(PageA.rows)
    /\ okCount["a"] = 1 /\ okCount["b"] = 1
    /\ called = {}
    /\ file = Some(seen_entries)

\* C13 (failed save): a save that fails leaves seen_entries as it is, with
\* the id in it, and main goes on to the next entry with the error counter
\* and the session untouched; no id ever leaves seen_entries, and an id in it
\* gets no further successful notification; and a save that succeeds writes
\* the whole of seen_entries.
C13_SaveFailureNotFatal ==
    [][/\ (pc = "save" /\ ev'.type = "save_fail")
            => /\ seen_entries' = seen_entries
               /\ ev'.id \in Seen
               /\ pc' = "loop"
               /\ idx' = idx + 1
               /\ current_entries' = current_entries
               /\ consecutive_errors' = consecutive_errors
               /\ session' = session
       /\ (pc = "save" /\ ev'.type = "save_ok")
            => file' = Some(seen_entries')
       /\ Len(seen_entries') >= Len(seen_entries)
       /\ SubSeq(seen_entries', 1, Len(seen_entries)) = seen_entries
       /\ \A x \in Seen : okCount'[x] = okCount[x]]_vars

\* C13 witness: the file was readable at startup and is not now, so the save
\* after the notification of b failed and truncated it; b is in seen_entries
\* and a later iteration has skipped it; the error counter is 0.
C13_Witness ==
    /\ loaded # <<>>
    /\ file = None
    /\ pc = "loop"
    /\ ev.type = "skip"
    /\ ev.id = "b"
    /\ okCount["b"] = 1
    /\ outcome \in {"Fresh", "Unchanged"}
    /\ consecutive_errors = 0

\* an iteration ends: main goes to one of its two sleeps
IterationEnds == pc \in {"fetch", "loop"} /\ pc' \in {"sleep_ok", "sleep_err"}

\* the counter after one more failure, and whether the session is replaced
Counted(c) == IF c + 1 >= max_consecutive_errors THEN 0 ELSE c + 1
Replaced == session'.gen # session.gen

\* C14 (as claimed): the counter stays in 0..4; an iteration that fails (its
\* fetch ended in a transport failure, or an exception reached main) adds one
\* to it, and replaces the session and resets it when that makes 5; an
\* iteration that succeeds resets it; the session is replaced in no other
\* step.
C14_CounterProtocol ==
    [][/\ consecutive_errors' \in 0..(max_consecutive_errors - 1)
       /\ IterationEnds =>
            IF outcome' = "TransportError"
                 \/ ev'.type \in {"error", "error_recreate"}
            THEN /\ consecutive_errors' = Counted(consecutive_errors)
                 /\ Replaced <=> consecutive_errors + 1 >= max_consecutive_errors
            ELSE /\ consecutive_errors' = 0
                 /\ ~Replaced
       /\ Replaced => IterationEnds]_vars

\* What holds of the counter: the same protocol with only the exceptions that
\* reach main counted as failures; an iteration whose fetch ended in a
\* transport failure resets the counter like a success.
CounterOnExceptionsOnly ==
    [][/\ consecutive_errors' \in 0..(max_consecutive_errors - 1)
       /\ IterationEnds =>
            IF ev'.type \in {"error", "error_recreate"}
            THEN /\ consecutive_errors' = Counted(consecutive_errors)
                 /\ Replaced <=> consecutive_errors + 1 >= max_consecutive_errors
                 /\ Replaced => ~session'.closed
            ELSE /\ consecutive_errors' = 0
                 /\ ~Replaced
       /\ Replaced => IterationEnds]_vars

\* the cache holds a page whose time to live has elapsed
Stale == page_cache.content # None /\ clock - page_cache.timestamp >= CACHE_DURATION

\* C15: a GET whose body has the cached digest returns the cached entries and
\* leaves entries, digest and timestamp of the cache as they were, so the
\* cache is still stale after it; a stale cache stays stale as long as it is
\* not replaced, and a call of scrape_nasdaq that finds it stale never answers
\* from the cache without the network: it is refused by the rate limiter or
\* it issues the GET.
C15_UnchangedKeepsCacheStale ==
    [][/\ (pc = "get" /\ Received' # "" /\ Received' = page_cache.hash) =>
            /\ ev'.type = "unchanged"
            /\ current_entries' = The(page_cache.content)
            /\ page_cache' = page_cache
            /\ Stale'
       /\ (Stale /\ page_cache' = page_cache) => Stale'
       /\ (Stale /\ pc = "fetch" /\ pc' \in {"loop", "get"}) =>
            /\ ev'.type \in {"ratelimited", "get"}
            /\ ev'.type = "get" <=> ~is_rate_limited(request_timestamps, clock).limited
            /\ ev'.type = "get" => gets' = Append(Recent(gets, clock), clock)]_vars

\* the same page was received again, long after the cache had expired, in at
\* least the second GET since then
C15_Witness ==
    /\ ev.type = "unchanged"
    /\ clock - page_cache.timestamp > RATE_LIMIT_WINDOW
    /\ Len(gets) >= 2
    /\ current_entries = The(page_cache.content)

\* C16: the cache changes only in the step that received, over the network,
\* a body whose digest is not the cached one and parsed it; that step
\* replaces content, digest and timestamp together. A cache hit, a refused
\* call, a transport failure, an unchanged digest and a page without the
\* table each leave the three fields as they were, and so does every step of
\* main.
C16_CacheReplacedOnlyByNewData ==
    [][/\ page_cache' # page_cache =>
            /\ pc = "get"
            /\ ev'.type = "newdata"
            /\ ev'.id # page_cache.hash
       /\ ev'.type = "newdata" /\ pc = "get" =>
            /\ page_cache'.hash = ev'.id
            /\ page_cache'.hash # page_cache.hash
            /\ page_cache'.timestamp = clock
            /\ page_cache'.content = Some(current_entries')
            /\ \E p \in Pages : /\ p.container
                                /\ get_page_hash(p) = ev'.id
                                /\ current_entries' = ParseRows(p.rows)
       /\ (pc \in {"fetch", "get"} /\ ev'.type \in {"fresh", "ratelimited",
               "transport", "unchanged", "structural"}) =>
            page_cache' = page_cache]_vars

\* a cache that held page A, captured earlier, now holds page B
C16_Witness ==
    /\ ev.type = "newdata"
    /\ page_cache.hash = get_page_hash(PageB)
    /\ page_cache.content = Some(ParseRows(PageB.rows))
    /\ page_cache.timestamp = clock
    /\ okCount["a"] = 1
    /\ loaded = <<>>

\* C17: a GET that receives a page without the container or the table gives
\* main an empty list and touches neither the counter, the session nor the
\* seen entries; main's loop over it examines no record (no notification, no
\* append, no save), and the iteration ends as a success: the counter is set
\* to 0 and main sleeps CHECK_INTERVAL.  Only an exception of its own or a
\* signal can take main elsewhere.
C17_StructuralFailureIsSuccess ==
    [][/\ (pc = "get" /\ Received' = get_page_hash(PageBroken)) =>
            /\ ev'.type = "structural"
            /\ outcome' = "Structural"
            /\ current_entries' = <<>>
            /\ pc' = "loop"
            /\ called' = {}
            /\ UNCHANGED <<consecutive_errors, session, seen_entries, file,
                           okCount, page_cache>>
       /\ (pc = "loop" /\ outcome = "Structural") =>
            /\ idx > Len(current_entries)
            /\ ev'.type \in {"iter_ok", "error", "error_recreate", "signal"}
            /\ UNCHANGED <<seen_entries, okCount, called, failed>>
            /\ ev'.type # "signal" => file' = file
            /\ ev'.type = "iter_ok" => /\ consecutive_errors' = 0
                                       /\ pc' = "sleep_ok"
                                       /\ session' = session
       /\ (pc = "sleep_ok" /\ pc' = "fetch") =>
            clock' = clock + CHECK_INTERVAL]_vars

\* the page lost its table after it had been cached and its entries seen;
\* the iteration is over and main sleeps CHECK_INTERVAL
C17_Witness ==
    /\ pc = "sleep_ok"
    /\ outcome = "Structural"
    /\ ev.type = "iter_ok"
    /\ current_entries = <<>>
    /\ called = {}
    /\ consecutive_errors = 0
    /\ page_cache.content # None
    /\ seen_entries # <<>>

\* the ids a restart would load from the file
Durable == Range(load_seen_entries(file))

\* C18 (as claimed, for runs in which no save fails): in every state, however
\* the process got there, termination included, the ids in the file are ids
\* of seen_entries and at most one id of seen_entries is not in the file.
C18_DurableWithinOne ==
    /\ Durable \subseteq Seen
    /\ Cardinality(Seen \ Durable) <= 1

\* What holds when no save fails: the same as long as the process runs, and
\* after a termination that did not land inside save_seen_entries; the save
\* follows the append at once, and after it the file holds every seen id.
DurableWithinOneUnlessCutShort ==
    /\ (pc # "terminated" \/ ev.at # "save") => C18_DurableWithinOne
    /\ (pc \in {"fetch", "get", "loop", "sleep_ok", "sleep_err"}) => Durable = Seen
    /\ pc = "sent" => Durable = Seen
    /\ pc = "save" => Seen \ Durable = {seen_entries[Len(seen_entries)]}

\* the time of the latest session.get
LastGet == gets[Len(gets)]

\* the GETs less than a window before the latest one, itself included
GetsInOpenWindow ==
    SelectSeq(gets, LAMBDA t : LastGet - t < RATE_LIMIT_WINDOW)

C20_FailedNotifyGoesOn ==
    [][/\ ev'.type = "notify_fail" =>
            /\ pc = "loop" /\ pc' = "loop"
            /\ idx' = idx + 1
            /\ ev'.id = current_entries[idx].id
            /\ UNCHANGED <<current_entries, consecutive_errors, session,
                           seen_entries, file, outcome>>
       /\ (pc = "loop" /\ failed # {}) =>
            /\ idx' \in {idx, idx + 1}
            /\ current_entries' = current_entries
            /\ (InLoop /\ is_new(current_entries[idx].id, seen_entries)) =>
                 ev'.type \in {"notify_ok", "notify_fail", "error",
                               "error_recreate", "signal"}
            /\ pc' = "sleep_ok" => /\ idx > Len(current_entries)
                                   /\ consecutive_errors' = 0
            /\ idx > Len(current_entries) => ENABLED LoopDone
       /\ (pc = "sleep_ok" /\ pc' = "fetch") =>
            clock' = clock + CHECK_INTERVAL
       /\ session'.gen # session.gen => ev'.type = "error_recreate"]_vars

\* the notification of a failed, that of b, after it in the table, succeeded,
\* and the iteration ended as a success with the session of the start
C20_Witness ==
    /\ pc = "sleep_ok"
    /\ ev.type = "iter_ok"
    /\ current_entries = ParseRows(PageA.rows)
    /\ called = {"a", "b"}
    /\ "a" \in failed
    /\ okCount["a"] = 0
    /\ okCount["b"] = 1
    /\ consecutive_errors = 0
    /\ session.gen = 0

====
